---- MODULE Spec2Model ----
(***************************************************************************)
(* Value conversions of go-duckdb's types.go: HUGEINT <-> big.Int, UUID    *)
(* <-> HUGEINT, UUID text and scanning, DECIMAL text.                      *)
(*                                                                         *)
(* Numbers wider than TLC's integers are kept as the code's libraries keep *)
(* them: a magnitude is a sequence of base-256 digits, least significant   *)
(* first, with no most-significant zero digit (math/big's nat, with bytes  *)
(* for machine words); a 64-bit word is exactly 8 such digits; a big.Int   *)
(* is a sign and a magnitude.  Text is a sequence of ASCII codes, as a Go  *)
(* string is a sequence of bytes.                                          *)
(***************************************************************************)
EXTENDS Integers, Sequences, FiniteSets, TLC

VARIABLES
    call,   \* the conversion call in progress: its operation, argument and result
    u,      \* the UUID receiver of UUID.Scan and UUID.String
    mp,     \* the Map receiver of Map.Scan
    run,    \* the heap of big numbers, and two callers running conversions step by step
    param,  \* the interval parameter bound in the engine, in its representation
    comp    \* the field t of the Composite[T] receiver of Composite.Scan and Get

vars == <<call, u, mp, comp, param, run>>

(***************************************************************************)
(* Bounds of the model                                                     *)
(***************************************************************************)
\* how many of ByteSamples the generated inputs draw their bytes from
NumByteVals == 5
\* the longest big.Int magnitude generated, in bytes (17 bytes exceed 128 bits)
MaxDigits == 17
\* the most trailing zero digits a generated decimal magnitude is given, besides
\* the magnitudes that are a single digit followed by zeros only
MaxTrailingZeros == 2

MaxSrcFields == 3

MaxListLen == 3

uuid_length == 16

ByteSamples == <<0, 255, 128, 127, 1, 2, 254, 129, 171, 16>>

ByteVals == {ByteSamples[k] : k \in 1..NumByteVals}

FillVals == {0, 255}

(***************************************************************************)
(* Sequences of digits                                                     *)
(***************************************************************************)
Rep(d, n) == [k \in 1..n |-> d]

Rest(x) == IF x = <<>> THEN <<>> ELSE Tail(x)

First(x) == IF x = <<>> THEN 0 ELSE Head(x)

Reverse(s) == [k \in 1..Len(s) |-> s[Len(s) + 1 - k]]

(***************************************************************************)
(* math/big nat: magnitudes                                                *)
(***************************************************************************)
RECURSIVE natNorm(_)
natNorm(x) ==
    IF x = <<>> THEN <<>>
    ELSE IF x[Len(x)] = 0 THEN natNorm(SubSeq(x, 1, Len(x) - 1))
    ELSE x

RECURSIVE natCmpFrom(_, _, _)
natCmpFrom(x, y, k) ==
    IF k = 0 THEN 0
    ELSE IF x[k] < y[k] THEN -1
    ELSE IF x[k] > y[k] THEN 1
    ELSE natCmpFrom(x, y, k - 1)

natCmp(x, y) ==
    IF Len(x) < Len(y) THEN -1
    ELSE IF Len(x) > Len(y) THEN 1
    ELSE natCmpFrom(x, y, Len(x))

RECURSIVE natAddC(_, _, _)
natAddC(x, y, c) ==
    IF x = <<>> /\ y = <<>> THEN (IF c = 0 THEN <<>> ELSE <<c>>)
    ELSE LET s == First(x) + First(y) + c
         IN  <<s % 256>> \o natAddC(Rest(x), Rest(y), s \div 256)

natAdd(x, y) == natAddC(x, y, 0)

RECURSIVE natSubB(_, _, _)
natSubB(x, y, b) ==
    IF x = <<>> THEN <<>>
    ELSE LET s == First(x) - First(y) - b
         IN  <<s % 256>> \o natSubB(Rest(x), Rest(y), IF s < 0 THEN 1 ELSE 0)

\* x >= y
natSub(x, y) == natNorm(natSubB(x, y, 0))

RECURSIVE natMulC(_, _, _)
natMulC(x, m, c) ==
    IF x = <<>> THEN (IF c = 0 THEN <<>> ELSE <<c % 256>> \o natMulC(<<>>, m, c \div 256))
    ELSE LET s == Head(x) * m + c
         IN  <<s % 256>> \o natMulC(Tail(x), m, s \div 256)

\* x * m for a single-word m
natMulSmall(x, m) == IF m = 0 THEN <<>> ELSE natMulC(x, m, 0)

RECURSIVE natPow2(_)
natPow2(b) == IF b = 0 THEN 1 ELSE 2 * natPow2(b - 1)

\* nat.shl: x << s
natShl(x, s) ==
    IF x = <<>> THEN <<>>
    ELSE Rep(0, s \div 8) \o natMulSmall(x, natPow2(s % 8))

\* nat.div for a divisor y = 256^k, the only divisor the conversions build (1 << 64)
natDiv(x, y) ==
    LET k == Len(y) - 1
    IN  IF Len(x) <= k THEN [q |-> <<>>, r |-> x]
        ELSE [q |-> SubSeq(x, k + 1, Len(x)), r |-> natNorm(SubSeq(x, 1, k))]

\* low64: the least significant 64-bit word of a magnitude
low64(x) == [k \in 1..8 |-> IF k <= Len(x) THEN x[k] ELSE 0]

(***************************************************************************)
(* 64-bit machine words: 8 digits, two's complement when signed            *)
(***************************************************************************)
IsNegative64(w) == w[8] >= 128

\* -w modulo 2^64
Neg64(w) == low64(natAddC([k \in 1..8 |-> 255 - w[k]], <<>>, 1))

RECURSIVE XorBits(_, _, _)
XorBits(a, b, n) ==
    IF n = 0 THEN 0
    ELSE (IF a % 2 = b % 2 THEN 0 ELSE 1) + 2 * XorBits(a \div 2, b \div 2, n - 1)

\* a ^ b on 64-bit words
Xor64(a, b) == [k \in 1..8 |-> XorBits(a[k], b[k], 8)]

\* 1 << 63
SignBit64 == [k \in 1..8 |-> IF k = 8 THEN 128 ELSE 0]

\* binary.BigEndian.Uint64: b[0] is the most significant byte
BigEndianUint64_little(b) == [k \in 1..8 |-> b[k]]

BigEndianUint64(b) == [k \in 1..8 |-> b[9 - k]]

\* binary.BigEndian.PutUint64
BigEndianPutUint64(w) == [k \in 1..8 |-> w[9 - k]]

(***************************************************************************)
(* math/big Int: sign and magnitude                                        *)
(***************************************************************************)
NewInt(x) ==
    [neg |-> IsNegative64(x),
     abs |-> natNorm(IF IsNegative64(x) THEN Neg64(x) ELSE x)]

SetUint64(x) == [neg |-> FALSE, abs |-> natNorm(x)]

IntLsh(x, n) == [neg |-> x.neg, abs |-> natShl(x.abs, n)]

IntAdd(x, y) ==
    LET same == x.neg = y.neg
        ge   == natCmp(x.abs, y.abs) >= 0
        abs  == IF same THEN natAdd(x.abs, y.abs)
                ELSE IF ge THEN natSub(x.abs, y.abs)
                ELSE natSub(y.abs, x.abs)
        neg  == IF same \/ ge THEN x.neg ELSE ~x.neg
    IN  [neg |-> abs # <<>> /\ neg, abs |-> abs]

IntSub(x, y) ==
    LET differ == x.neg # y.neg
        ge     == natCmp(x.abs, y.abs) >= 0
        abs    == IF differ THEN natAdd(x.abs, y.abs)
                  ELSE IF ge THEN natSub(x.abs, y.abs)
                  ELSE natSub(y.abs, x.abs)
        neg    == IF differ \/ ge THEN x.neg ELSE ~x.neg
    IN  [neg |-> abs # <<>> /\ neg, abs |-> abs]

intOne == [neg |-> FALSE, abs |-> <<1>>]

\* truncated division: the quotient rounds toward zero, the remainder has x's sign
QuoRem(x, y) ==
    LET d == natDiv(x.abs, y.abs)
    IN  [q |-> [neg |-> d.q # <<>> /\ x.neg # y.neg, abs |-> d.q],
         r |-> [neg |-> d.r # <<>> /\ x.neg, abs |-> d.r]]

DivMod_truncated(x, y) == QuoRem(x, y)

\* Euclidean division: the remainder is never negative
DivMod(x, y) ==
    LET t == QuoRem(x, y)
    IN  IF t.r.neg
        THEN IF y.neg
             THEN [q |-> IntAdd(t.q, intOne), r |-> IntSub(t.r, y)]
             ELSE [q |-> IntSub(t.q, intOne), r |-> IntAdd(t.r, y)]
        ELSE t

IsInt64_unsigned(x) == Len(x.abs) <= 8

IsInt64(x) ==
    /\ Len(x.abs) <= 8
    /\ LET w == low64(x.abs)
       IN  ~IsNegative64(w) \/ (x.neg /\ w = Neg64(w))

IntUint64(x) == low64(x.abs)

IntInt64_magnitude(x) == low64(x.abs)

IntInt64(x) == IF x.neg THEN Neg64(low64(x.abs)) ELSE low64(x.abs)

(***************************************************************************)
(* duckdb_hugeint and its conversions                                      *)
(***************************************************************************)
ZeroWord == Rep(0, 8)

ZeroHugeInt == [upper |-> ZeroWord, lower |-> ZeroWord]

hugeIntToNative_unsignedUpper(hi) ==
    IntAdd(IntLsh(SetUint64(hi.upper), 64), SetUint64(hi.lower))

hugeIntToNative(hi) ==
    IntAdd(IntLsh(NewInt(hi.upper), 64), SetUint64(hi.lower))

hugeIntFromNative(i) ==
    LET d  == IntLsh(NewInt(low64(<<1>>)), 64)
        qr == DivMod(i, d)
    IN  IF ~IsInt64(qr.q)
        THEN [val |-> ZeroHugeInt, err |-> "too big for HUGEINT"]
        ELSE [val |-> [lower |-> IntUint64(qr.r), upper |-> IntInt64(qr.q)],
              err |-> "nil"]

(***************************************************************************)
(* UUID <-> duckdb_hugeint                                                 *)
(***************************************************************************)
hugeIntToUUID_noFlip(hi) ==
    BigEndianPutUint64(hi.upper) \o BigEndianPutUint64(hi.lower)

hugeIntToUUID(hi) ==
    BigEndianPutUint64(Xor64(hi.upper, SignBit64)) \o BigEndianPutUint64(hi.lower)

uuidToHugeInt_noFlip(uuid) ==
    [upper |-> BigEndianUint64(SubSeq(uuid, 1, 8)),
     lower |-> BigEndianUint64(SubSeq(uuid, 9, 16))]

uuidToHugeInt(uuid) ==
    LET upper == Xor64(BigEndianUint64(SubSeq(uuid, 1, 8)), SignBit64)
    IN  [upper |-> upper, lower |-> BigEndianUint64(SubSeq(uuid, 9, 16))]

(***************************************************************************)
(* UUID text                                                               *)
(***************************************************************************)
\* '-'
Hyphen == 45

\* encoding/hex hextable, "0123456789abcdef"
hextable_upper == <<48, 49, 50, 51, 52, 53, 54, 55, 56, 57, 65, 66, 67, 68, 69, 70>>

hextable == <<48, 49, 50, 51, 52, 53, 54, 55, 56, 57, 97, 98, 99, 100, 101, 102>>

\* hex.Encode: the two digits of each byte of src, high nibble first
hexEncode(src) ==
    [j \in 1..(2 * Len(src)) |->
        LET v == src[(j + 1) \div 2]
        IN  IF j % 2 = 1 THEN hextable[(v \div 16) + 1] ELSE hextable[(v % 16) + 1]]

\* buf with data written from offset off (0-based) on
WriteAt(buf, off, data) ==
    [k \in 1..Len(buf) |->
        IF k > off /\ k <= off + Len(data) THEN data[k - off] ELSE buf[k]]

UUIDString(uuid) ==
    LET b0 == Rep(0, 36)
        b1 == WriteAt(b0, 0, hexEncode(SubSeq(uuid, 1, 4)))
        b2 == WriteAt(b1, 8, <<Hyphen>>)
        b3 == WriteAt(b2, 9, hexEncode(SubSeq(uuid, 5, 6)))
        b4 == WriteAt(b3, 13, <<Hyphen>>)
        b5 == WriteAt(b4, 14, hexEncode(SubSeq(uuid, 7, 8)))
        b6 == WriteAt(b5, 18, <<Hyphen>>)
        b7 == WriteAt(b6, 19, hexEncode(SubSeq(uuid, 9, 10)))
        b8 == WriteAt(b7, 23, <<Hyphen>>)
    IN  WriteAt(b8, 24, hexEncode(SubSeq(uuid, 11, 16)))

(***************************************************************************)
(* github.com/google/uuid Parse, which UUID.Scan hands its text to         *)
(***************************************************************************)
\* xvalues: the value of a hexadecimal digit of either case, 255 for any other byte
xvalue(c) ==
    IF c >= 48 /\ c <= 57 THEN c - 48
    ELSE IF c >= 97 /\ c <= 102 THEN c - 87
    ELSE IF c >= 65 /\ c <= 70 THEN c - 55
    ELSE 255

xtob(x1, x2) ==
    [v  |-> ((xvalue(x1) * 16) % 256) + (xvalue(x2) % 16),
     ok |-> xvalue(x1) # 255 /\ xvalue(x2) # 255]

\* 0-based offsets of the 16 digit pairs in xxxxxxxx-xxxx-xxxx-xxxx-xxxxxxxxxxxx
DashedOffsets == <<0, 2, 4, 6, 9, 11, 14, 16, 19, 21, 24, 26, 28, 30, 32, 34>>

PlainOffsets == [i \in 1..16 |-> 2 * (i - 1)]

RECURSIVE ParseBytes(_, _, _, _)
ParseBytes(s, offs, i, acc) ==
    IF i > 16 THEN [id |-> acc, err |-> "nil"]
    ELSE LET b == xtob(s[offs[i] + 1], s[offs[i] + 2])
         IN  IF ~b.ok THEN [id |-> acc, err |-> "invalid UUID format"]
             ELSE ParseBytes(s, offs, i + 1, [acc EXCEPT ![i] = b.v])

ToLower(c) == IF c >= 65 /\ c <= 90 THEN c + 32 ELSE c

\* strings.EqualFold on ASCII text
EqualFold(a, b) ==
    Len(a) = Len(b) /\ \A k \in 1..Len(a) : ToLower(a[k]) = ToLower(b[k])

\* "urn:uuid:"
UrnPrefix == <<117, 114, 110, 58, 117, 117, 105, 100, 58>>

ParseDashed(s) ==
    IF s[9] # Hyphen \/ s[14] # Hyphen \/ s[19] # Hyphen \/ s[24] # Hyphen
    THEN [id |-> Rep(0, 16), err |-> "invalid UUID format"]
    ELSE ParseBytes(s, DashedOffsets, 1, Rep(0, 16))

Parse(s) ==
    IF Len(s) = 36 THEN ParseDashed(s)
    ELSE IF Len(s) = 36 + 9
    THEN IF ~EqualFold(SubSeq(s, 1, 9), UrnPrefix)
         THEN [id |-> Rep(0, 16), err |-> "invalid urn prefix"]
         ELSE ParseDashed(SubSeq(s, 10, Len(s)))
    ELSE IF Len(s) = 36 + 2 THEN ParseDashed(SubSeq(s, 2, Len(s)))
    ELSE IF Len(s) = 32 THEN ParseBytes(s, PlainOffsets, 1, Rep(0, 16))
    ELSE [id |-> Rep(0, 16), err |-> "invalid UUID length"]

(***************************************************************************)
(* UUID.Scan                                                               *)
(***************************************************************************)
\* copy(dst, src): the first min(len(dst), len(src)) elements of src over dst
Copy(dst, src) == [k \in 1..Len(dst) |-> IF k <= Len(src) THEN src[k] ELSE dst[k]]

\* case string
ScanString(recv, val) ==
    LET p == Parse(val)
    IN  IF p.err # "nil" THEN [u |-> recv, err |-> p.err]
        ELSE [u |-> Copy(recv, p.id), err |-> "nil"]

UUIDScan_neverParseBytes(recv, v) ==
    IF v.type = "[]byte" THEN [u |-> Copy(recv, v.val), err |-> "nil"]
    ELSE IF v.type = "string" THEN ScanString(recv, v.val)
    ELSE [u |-> recv, err |-> "invalid UUID value type"]

UUIDScan(recv, v) ==
    IF v.type = "[]byte"
    THEN IF Len(v.val) # uuid_length THEN ScanString(recv, v.val)
         ELSE [u |-> Copy(recv, v.val), err |-> "nil"]
    ELSE IF v.type = "string" THEN ScanString(recv, v.val)
    ELSE [u |-> recv, err |-> "invalid UUID value type"]

(***************************************************************************)
(* Decimal                                                                 *)
(***************************************************************************)
max_decimal_width == 38

\* x divided by a single-word m, from the most significant digit down
RECURSIVE natDivSmallFrom(_, _, _, _)
natDivSmallFrom(x, m, k, rem) ==
    IF k = 0 \/ rem < 0 THEN [q |-> <<>>, r |-> rem]
    ELSE LET cur  == rem * 256 + x[k]
             rest == natDivSmallFrom(x, m, k - 1, cur % m)
         IN  [q |-> rest.q \o <<cur \div m>>, r |-> rest.r]

natDivSmall(x, m) ==
    LET d == natDivSmallFrom(x, m, Len(x), 0)
    IN  [q |-> natNorm(d.q), r |-> d.r]

\* the decimal digits of a non-zero magnitude, as text
RECURSIVE natDecimalText(_)
natDecimalText(x) ==
    IF x = <<>> THEN <<>>
    ELSE LET d == natDivSmall(x, 10)
         IN  natDecimalText(d.q) \o <<48 + d.r>>

\* big.Int.Sign
IntSign(x) == IF x.abs = <<>> THEN 0 ELSE IF x.neg THEN -1 ELSE 1

\* big.Int.String: base 10, a leading '-' when negative
IntString(x) ==
    IF x.abs = <<>> THEN <<48>>
    ELSE (IF x.neg THEN <<45>> ELSE <<>>) \o natDecimalText(x.abs)

\* strings.TrimRightFunc(s, r == '0')
TrimRightZeros_none(t) == t

RECURSIVE TrimRightZeros(_)
TrimRightZeros(t) ==
    IF t = <<>> THEN <<>>
    ELSE IF t[Len(t)] = 48 THEN TrimRightZeros(SubSeq(t, 1, Len(t) - 1))
    ELSE t

\* strings.Repeat("0", n)
RepeatZero(n) == Rep(48, n)

DecimalString_keepScale(d) ==
    IF IntSign(d.Value) = 0 THEN <<48>>
    ELSE LET signStr     == IF IntSign(d.Value) < 0 THEN <<45>> ELSE <<>>
             text        == IntString(d.Value)
             scaleless   == IF IntSign(d.Value) < 0 THEN SubSeq(text, 2, Len(text)) ELSE text
             zeroTrimmed == TrimRightZeros(scaleless)
             scale       == d.Scale
         IN  IF scale <= 0
             THEN signStr \o zeroTrimmed \o RepeatZero(-1 * scale)
             ELSE IF Len(zeroTrimmed) <= scale
             THEN signStr \o <<48, 46>> \o RepeatZero(scale - Len(zeroTrimmed)) \o zeroTrimmed
             ELSE signStr \o SubSeq(zeroTrimmed, 1, Len(zeroTrimmed) - scale) \o <<46>>
                  \o SubSeq(zeroTrimmed, Len(zeroTrimmed) - scale + 1, Len(zeroTrimmed))

DecimalString_noZeroCase(d) ==
    LET signStr     == IF IntSign(d.Value) < 0 THEN <<45>> ELSE <<>>
        text        == IntString(d.Value)
        scaleless   == IF IntSign(d.Value) < 0 THEN SubSeq(text, 2, Len(text)) ELSE text
        zeroTrimmed == TrimRightZeros(scaleless)
        scale       == d.Scale - (Len(scaleless) - Len(zeroTrimmed))
    IN  IF scale <= 0
        THEN signStr \o zeroTrimmed \o RepeatZero(-1 * scale)
        ELSE IF Len(zeroTrimmed) <= scale
        THEN signStr \o <<48, 46>> \o RepeatZero(scale - Len(zeroTrimmed)) \o zeroTrimmed
        ELSE signStr \o SubSeq(zeroTrimmed, 1, Len(zeroTrimmed) - scale) \o <<46>>
             \o SubSeq(zeroTrimmed, Len(zeroTrimmed) - scale + 1, Len(zeroTrimmed))

DecimalString(d) ==
    IF IntSign(d.Value) = 0 THEN <<48>>
    ELSE LET signStr     == IF IntSign(d.Value) < 0 THEN <<45>> ELSE <<>>
             text        == IntString(d.Value)
             scaleless   == IF IntSign(d.Value) < 0 THEN SubSeq(text, 2, Len(text)) ELSE text
             zeroTrimmed == TrimRightZeros(scaleless)
             scale       == d.Scale - (Len(scaleless) - Len(zeroTrimmed))
         IN  IF scale <= 0
             THEN signStr \o zeroTrimmed \o RepeatZero(-1 * scale)
             ELSE IF Len(zeroTrimmed) <= scale
             THEN signStr \o <<48, 46>> \o RepeatZero(scale - Len(zeroTrimmed)) \o zeroTrimmed
             ELSE signStr \o SubSeq(zeroTrimmed, 1, Len(zeroTrimmed) - scale) \o <<46>>
                  \o SubSeq(zeroTrimmed, Len(zeroTrimmed) - scale + 1, Len(zeroTrimmed))

(***************************************************************************)
(* math/big Float and Decimal.Float64                                      *)
(*                                                                         *)
(* A Float is sign, mantissa and exponent, its value mant * 2^exp, with    *)
(* the precision in bits it rounds to.  A float64 is the same with a       *)
(* mantissa of 53 bits (empty for zero).                                   *)
(***************************************************************************)
\* the precision SetInt gives a Float that has none, at least
FloatMinPrec == 64

\* the bits of a float64 mantissa
Float64MantBits == 53

\* nat.bitLen
natBitLen(x) ==
    IF x = <<>> THEN 0
    ELSE 8 * (Len(x) - 1) + (CHOOSE n \in 1..8 : natPow2(n - 1) <= x[Len(x)] /\ x[Len(x)] < natPow2(n))

\* nat.shr: x >> s
natShr(x, s) ==
    IF Len(x) <= s \div 8 THEN <<>>
    ELSE natDivSmall(SubSeq(x, s \div 8 + 1, Len(x)), natPow2(s % 8)).q

\* 10^k as a machine word, k <= 6
RECURSIVE pow10(_)
pow10(k) == IF k = 0 THEN 1 ELSE 10 * pow10(k - 1)

\* nat.expNN for the base 10: 10^k, six decimal places at a time
RECURSIVE natExp10(_)
natExp10(k) ==
    IF k <= 6 THEN natNorm(<<pow10(k) % 256, (pow10(k) \div 256) % 256, pow10(k) \div 65536>>)
    ELSE natMulSmall(natExp10(k - 6), pow10(6))

\* nat.div for a divisor 10^k, the divisor Float64 builds, six decimal places at a
\* time: the quotient, and whether the remainder is zero
RECURSIVE natDivPow10(_, _, _)
natDivPow10(x, k, exact) ==
    IF k = 0 \/ Len(x) < 0 THEN [q |-> x, exact |-> exact]
    ELSE LET step == IF k > 6 THEN 6 ELSE k
             d    == natDivSmall(x, pow10(step))
         IN  natDivPow10(d.q, k - step, exact /\ d.r = 0)

\* Float.round, ToNearestEven: a mantissa of more than prec bits, with sbit telling
\* that the value lies above it, cut to prec bits
FloatRound(mant, exp, sbit, prec) ==
    LET drop == natBitLen(mant) - prec
        q    == natShr(mant, drop)
        rest == natSub(mant, natShl(q, drop))
        half == natCmp(rest, natShl(<<1>>, drop - 1))
        up   == half = 1 \/ (half = 0 /\ (sbit \/ q[1] % 2 = 1))
        q1   == IF up THEN natAdd(q, <<1>>) ELSE q
    IN  IF natBitLen(q1) > prec
        THEN [mant |-> natShr(q1, 1), exp |-> exp + drop + 1]
        ELSE [mant |-> q1, exp |-> exp + drop]

\* new(big.Float).SetInt(x)
FloatSetInt(x) ==
    [neg |-> x.neg, mant |-> x.abs, exp |-> 0,
     prec |-> IF natBitLen(x.abs) > FloatMinPrec THEN natBitLen(x.abs) ELSE FloatMinPrec]

\* z.Quo(x, y) for z = x and y = 10^scale: the quotient rounded to the precision of z.
\* The dividend is shifted to give a quotient with bits to spare, as in Float.uquo.
FloatQuo(x, y, scale) ==
    IF x.mant = <<>> THEN x
    ELSE LET room  == x.prec + 1 + natBitLen(y.mant) - natBitLen(x.mant)
             shift == IF room > 0 THEN room ELSE 0
             d     == natDivPow10(natShl(x.mant, shift), scale, TRUE)
             r     == FloatRound(d.q, x.exp - shift, ~d.exact, x.prec)
         IN  [neg |-> x.neg, mant |-> r.mant, exp |-> r.exp, prec |-> x.prec]

\* Float.Float64: the nearest float64 (the values of a Decimal are far from the
\* ends of its range)
FloatFloat64(x) ==
    IF x.mant = <<>> THEN [neg |-> FALSE, mant |-> <<>>, exp |-> 0]
    ELSE LET full == natShl(x.mant, x.prec - natBitLen(x.mant))
             r    == FloatRound(full, x.exp - (x.prec - natBitLen(x.mant)), FALSE,
                                Float64MantBits)
         IN  [neg |-> x.neg, mant |-> r.mant, exp |-> r.exp]

\* Decimal.Float64
DecimalFloat64(d) ==
    LET factor == FloatSetInt([neg |-> FALSE, abs |-> natExp10(d.Scale)])
        value  == FloatSetInt(d.Value)
    IN  FloatFloat64(FloatQuo(value, factor, d.Scale))

(***************************************************************************)
(* Interval                                                                *)
(*                                                                         *)
(* Days and Months are int32, Micros is an int64 word.  The engine holds   *)
(* an interval as (months, days, micros).                                  *)
(***************************************************************************)
IntervalOf(days, months, micros) == [Days |-> days, Months |-> months, Micros |-> micros]

\* the microseconds of a day, 86400000000
DayMicros == <<0, 96, 215, 29, 20>>

TotalMicros(i) ==
    IntAdd(NewInt(i.Micros),
           [neg |-> i.Days < 0,
            abs |-> natMulSmall(DayMicros, IF i.Days < 0 THEN 0 - i.Days ELSE i.Days)])

\* == on Interval values: the three fields compared
IntervalEqual_normalized(a, b) ==
    a.Months = b.Months /\ TotalMicros(a) = TotalMicros(b)

IntervalEqual(a, b) ==
    a.Days = b.Days /\ a.Months = b.Months /\ a.Micros = b.Micros

NoParam == [set |-> FALSE]

\* an Interval bound as a parameter, and a column value scanned as an Interval:
\* each field passed through
bindInterval(i) ==
    [set |-> TRUE, months |-> i.Months, days |-> i.Days, micros |-> i.Micros]

scanInterval(e) == IntervalOf(e.days, e.months, e.micros)

(***************************************************************************)
(* Map and Composite[T]                                                    *)
(*                                                                         *)
(* A Go map is nil or a set of key/value pairs, a slice is nil or a        *)
(* sequence; a value handed to Scan is tagged with its dynamic type:       *)
(* "map" a Map (map[any]any), "record" a map[string]any, "list" a []any,   *)
(* "string" a string, "nil" the nil interface.  Names are ASCII text.      *)
(***************************************************************************)
NoPairs == [k \in {} |-> 0]

NilMap == [nil |-> TRUE, kv |-> NoPairs]

MapOf(kv) == [nil |-> FALSE, kv |-> kv]

NilSlice == [nil |-> TRUE, elems |-> <<>>]

SliceOf(elems) == [nil |-> FALSE, elems |-> elems]

\* Map.Scan: *m = data, when v is a Map
MapScan_assignFirst(recv, v) ==
    IF v.kind # "map"
    THEN [m |-> NilMap, err |-> "invalid type for scanning Map"]
    ELSE [m |-> v.val, err |-> "nil"]

MapScan(recv, v) ==
    IF v.kind # "map"
    THEN [m |-> recv, err |-> "invalid type for scanning Map"]
    ELSE [m |-> v.val, err |-> "nil"]

\* the fields of the struct types scanned into: the declared name and the
\* mapstructure tag (empty when there is none)
\* type point struct { X int; Y int; Depth int `mapstructure:"z"` }
PointFields ==
    <<[field |-> "X", name |-> <<88>>, tag |-> <<>>],
      [field |-> "Y", name |-> <<89>>, tag |-> <<>>],
      [field |-> "Depth", name |-> <<68, 101, 112, 116, 104>>, tag |-> <<122>>]>>

\* the name a field is looked up by: its tag when it has one
FieldName(f) == IF f.tag # <<>> THEN f.tag ELSE f.name

\* the zero value of T
ZeroComposite(kind) ==
    IF kind = "map" THEN [kind |-> "map", val |-> NilMap]
    ELSE IF kind = "struct" THEN [kind |-> "struct", val |-> [X |-> 0, Y |-> 0, Depth |-> 0]]
    ELSE [kind |-> "slice", val |-> NilSlice]

\* mapstructure decodeMapFromMap: the pairs of the source set in the destination's
\* map, which is a new map only when the destination is nil
decodeMap(dst, src) ==
    LET valMap == IF dst.nil THEN NoPairs ELSE dst.kv
    IN  [val |-> MapOf([k \in (DOMAIN valMap) \cup (DOMAIN src.kv) |->
                          IF k \in DOMAIN src.kv THEN src.kv[k] ELSE valMap[k]]),
         err |-> "nil"]

\* the source key a field takes its value from: the key equal to the field's name,
\* else a key equal to it but for case; none when the set is empty
MatchingKeys_exactOnly(f, src) ==
    IF FieldName(f) \in DOMAIN src.kv THEN {FieldName(f)} ELSE {}

MatchingKeys(f, src) ==
    IF FieldName(f) \in DOMAIN src.kv THEN {FieldName(f)}
    ELSE {k \in DOMAIN src.kv : EqualFold(k, FieldName(f))}

\* mapstructure decodeStructFromMap: each field with a matching key is set from it,
\* the others are not touched, and keys that match no field are not reported
decodeStruct(dst, src) ==
    LET new(f) == LET ks == MatchingKeys(f, src)
                  IN  IF ks = {} THEN dst[f.field] ELSE src.kv[CHOOSE k \in ks : TRUE]
    IN  [val |-> [X |-> new(PointFields[1]), Y |-> new(PointFields[2]),
                  Depth |-> new(PointFields[3])],
         err |-> "nil"]

\* mapstructure decodeSlice: the elements of the source set at their indices in the
\* destination's slice, which is a new slice only when the destination is nil and is
\* appended to while it is too short
decodeSlice(dst, src) ==
    LET n        == Len(src.elems)
        valSlice == IF dst.nil THEN Rep(0, n) ELSE dst.elems
        len      == IF Len(valSlice) > n THEN Len(valSlice) ELSE n
    IN  [val |-> SliceOf([i \in 1..len |-> IF i <= n THEN src.elems[i] ELSE valSlice[i]]),
         err |-> "nil"]

\* mapstructure.Decode(v, &s.t)
Decode(dst, v) ==
    IF v.kind = "nil" THEN [val |-> dst.val, err |-> "nil"]
    ELSE IF dst.kind = "map"
    THEN IF v.kind \in {"map", "record"} THEN decodeMap(dst.val, v.val)
         ELSE [val |-> dst.val, err |-> "expected a map"]
    ELSE IF dst.kind = "struct"
    THEN IF v.kind \in {"map", "record"} THEN decodeStruct(dst.val, v.val)
         ELSE [val |-> dst.val, err |-> "expected a map"]
    ELSE IF v.kind = "list" THEN decodeSlice(dst.val, v.val)
         ELSE [val |-> dst.val, err |-> "source data must be an array or slice"]

\* Composite[T].Scan
CompositeScan(recv, v) ==
    LET r == Decode(recv, v)
    IN  [t |-> [kind |-> recv.kind, val |-> r.val], err |-> r.err]

\* Composite[T].Get
CompositeGet(recv) == recv.val

(***************************************************************************)
(* The conversions statement by statement                                  *)
(*                                                                         *)
(* A *big.Int, a *big.Float and a *Decimal point into the heap, a sequence *)
(* of objects: new appends one, a method writes its receiver in place.     *)
(* A caller runs one conversion: fn names it, pc is the line it stands at, *)
(* l holds its pointer variables (0 before they are set).                  *)
(***************************************************************************)
NoRun == [heap |-> <<>>, thr |-> <<>>, hi |-> ZeroHugeInt, given |-> <<>>]

NoLocals ==
    [i |-> 0, d |-> 0, q |-> 0, r |-> 0, scale |-> 0, factor |-> 0, value |-> 0]

Idle == [fn |-> "none", pc |-> "idle", l |-> NoLocals, ret |-> [set |-> FALSE]]

\* the objects both callers are handed: the integer, and the Decimal whose Value it is
SharedInt == 1

SharedDecimal == 2

Entry(fn) ==
    IF fn = "hugeIntToNative" THEN "84"
    ELSE IF fn = "hugeIntFromNative" THEN "91"
    ELSE IF fn = "Decimal.String" THEN "165"
    ELSE "156"

\* the objects q.DivMod(i, d, r) writes: its receiver and r
DivModWrites_argument(l) == [q |-> l.i, r |-> l.r]

DivModWrites(l) == [q |-> l.q, r |-> l.r]

\* one statement of hugeIntToNative(hi)
StepToNative(h, hi, c) ==
    IF c.pc = "84"          \* i := big.NewInt(int64(hi.upper))
    THEN [heap |-> Append(h, NewInt(hi.upper)),
          thr  |-> [c EXCEPT !.pc = "85", !.l.i = Len(h) + 1]]
    ELSE IF c.pc = "85"     \* i.Lsh(i, 64)
    THEN [heap |-> [h EXCEPT ![c.l.i] = IntLsh(h[c.l.i], 64)],
          thr  |-> [c EXCEPT !.pc = "86"]]
    ELSE IF c.pc = "86"     \* i.Add(i, new(big.Int).SetUint64(uint64(hi.lower)))
    THEN [heap |-> Append([h EXCEPT ![c.l.i] = IntAdd(h[c.l.i], SetUint64(hi.lower))],
                          SetUint64(hi.lower)),
          thr  |-> [c EXCEPT !.pc = "87"]]
    ELSE                    \* return i
         [heap |-> h, thr |-> [c EXCEPT !.pc = "done", !.ret = [set |-> TRUE, ptr |-> c.l.i]]]

\* one statement of hugeIntFromNative(i)
StepFromNative(h, c) ==
    IF c.pc = "91"          \* d := big.NewInt(1)
    THEN [heap |-> Append(h, NewInt(low64(<<1>>))),
          thr  |-> [c EXCEPT !.pc = "92", !.l.i = SharedInt, !.l.d = Len(h) + 1]]
    ELSE IF c.pc = "92"     \* d.Lsh(d, 64)
    THEN [heap |-> [h EXCEPT ![c.l.d] = IntLsh(h[c.l.d], 64)],
          thr  |-> [c EXCEPT !.pc = "94"]]
    ELSE IF c.pc = "94"     \* q := new(big.Int); r := new(big.Int)
    THEN [heap |-> h \o <<NewInt(ZeroWord), NewInt(ZeroWord)>>,
          thr  |-> [c EXCEPT !.pc = "96", !.l.q = Len(h) + 1, !.l.r = Len(h) + 2]]
    ELSE IF c.pc = "96"     \* q.DivMod(i, d, r)
    THEN LET qr == DivMod(h[c.l.i], h[c.l.d])
             w  == DivModWrites(c.l)
         IN  [heap |-> [h EXCEPT ![w.q] = qr.q, ![w.r] = qr.r],
              thr  |-> [c EXCEPT !.pc = "98"]]
    ELSE                    \* if !q.IsInt64() { return ..., error }; return ..., nil
         [heap |-> h,
          thr  |-> [c EXCEPT !.pc = "done",
                             !.ret = [set |-> TRUE,
                                      res |-> IF ~IsInt64(h[c.l.q])
                                              THEN [val |-> ZeroHugeInt,
                                                    err |-> "too big for HUGEINT"]
                                              ELSE [val |-> [lower |-> IntUint64(h[c.l.r]),
                                                             upper |-> IntInt64(h[c.l.q])],
                                                    err |-> "nil"]]]]

\* Decimal.String: it reads d.Value and d.Scale and writes no object
StepString(h, c) ==
    [heap |-> h,
     thr  |-> [c EXCEPT !.pc = "done",
                        !.ret = [set |-> TRUE,
                                 res |-> DecimalString([Width |-> h[SharedDecimal].Width,
                                                        Scale |-> h[SharedDecimal].Scale,
                                                        Value |-> h[h[SharedDecimal].Value]])]]]

\* one statement of Decimal.Float64
StepFloat64(h, c) ==
    IF c.pc = "156"         \* scale := big.NewInt(int64(d.Scale))
    THEN [heap |-> Append(h, [scale |-> h[SharedDecimal].Scale]),
          thr  |-> [c EXCEPT !.pc = "157", !.l.d = SharedDecimal, !.l.scale = Len(h) + 1]]
    ELSE IF c.pc = "157"    \* factor := new(big.Float).SetInt(new(big.Int).Exp(10, scale, nil))
    THEN [heap |-> Append(h, FloatSetInt([neg |-> FALSE,
                                          abs |-> natExp10(h[c.l.scale].scale)])),
          thr  |-> [c EXCEPT !.pc = "158", !.l.factor = Len(h) + 1]]
    ELSE IF c.pc = "158"    \* value := new(big.Float).SetInt(d.Value)
    THEN [heap |-> Append(h, FloatSetInt(h[h[c.l.d].Value])),
          thr  |-> [c EXCEPT !.pc = "159", !.l.value = Len(h) + 1]]
    ELSE IF c.pc = "159"    \* value.Quo(value, factor)
    THEN [heap |-> [h EXCEPT ![c.l.value] =
                       FloatQuo(h[c.l.value], h[c.l.factor], h[c.l.scale].scale)],
          thr  |-> [c EXCEPT !.pc = "160"]]
    ELSE                    \* f, _ := value.Float64(); return f
         [heap |-> h,
          thr  |-> [c EXCEPT !.pc = "done",
                             !.ret = [set |-> TRUE, res |-> FloatFloat64(h[c.l.value])]]]

(***************************************************************************)
(* Inputs                                                                  *)
(***************************************************************************)
\* a 64-bit word with top byte hi, low byte lo and the six bytes between equal to fill
Word(hi, fill, lo) == <<lo>> \o Rep(fill, 6) \o <<hi>>

Words == {Word(h, f, l) : h \in ByteVals, f \in FillVals, l \in ByteVals}

HugeInts == [upper : Words, lower : Words]

NatPattern(n, hi, fill, lo) ==
    IF n = 0 THEN <<>>
    ELSE IF n = 1 THEN <<hi>>
    ELSE <<lo>> \o Rep(fill, n - 2) \o <<hi>>

NatSamples ==
    {NatPattern(n, h, f, l) :
        n \in 0..MaxDigits, h \in ByteVals \ {0}, f \in FillVals, l \in ByteVals}

BigInts == {[neg |-> s, abs |-> a] : s \in {FALSE}, a \in NatSamples}
           \cup {[neg |-> s, abs |-> a] : s \in {TRUE}, a \in NatSamples \ {<<>>}}

\* the 16 bytes whose first half is the word a and second half the word b, big-endian
UUIDOf(a, b) == Reverse(a) \o Reverse(b)

\* the UUIDs of TestUUID and TestTypes: uuid.Nil,
\* 80000000-0000-0000-0000-200000000000, 53b4e983-b287-481a-94ad-6e3c90489913
TestUUIDs ==
    {Rep(0, 16),
     <<128, 0, 0, 0, 0, 0, 0, 0, 0, 0, 32, 0, 0, 0, 0, 0>>,
     <<83, 180, 233, 131, 178, 135, 72, 26, 148, 173, 110, 60, 144, 72, 153, 19>>}

UUIDs == {UUIDOf(a, b) : a \in Words, b \in Words} \cup TestUUIDs

\* the UUIDs each converted UUID is compared with
OrderProbes ==
    {UUIDOf(Word(h1, f1, f1), Word(h2, f2, f2)) :
        h1 \in ByteVals, f1 \in FillVals, h2 \in ByteVals, f2 \in FillVals}

\* the lower-case hexadecimal digit of n in 0..15
HexDigit(n) == IF n < 10 THEN 48 + n ELSE 97 + (n - 10)

HexOf(bytes) ==
    [j \in 1..(2 * Len(bytes)) |->
        HexDigit(IF j % 2 = 1 THEN bytes[(j + 1) \div 2] \div 16
                 ELSE bytes[(j + 1) \div 2] % 16)]

\* xxxxxxxx-xxxx-xxxx-xxxx-xxxxxxxxxxxx
CanonicalText(b) ==
    HexOf(SubSeq(b, 1, 4)) \o <<Hyphen>> \o HexOf(SubSeq(b, 5, 6)) \o <<Hyphen>>
    \o HexOf(SubSeq(b, 7, 8)) \o <<Hyphen>> \o HexOf(SubSeq(b, 9, 10)) \o <<Hyphen>>
    \o HexOf(SubSeq(b, 11, 16))

UpperText(t) == [k \in 1..Len(t) |-> IF t[k] >= 97 /\ t[k] <= 122 THEN t[k] - 32 ELSE t[k]]

\* 01234567-89ab-cdef-fedc-ba9876543210
AllNibbles ==
    <<1, 35, 69, 103, 137, 171, 205, 239, 254, 220, 186, 152, 118, 84, 50, 16>>

\* text that parses
GoodTexts ==
    UNION {{CanonicalText(b),
            UpperText(CanonicalText(b)),
            <<123>> \o CanonicalText(b) \o <<125>>,
            UrnPrefix \o CanonicalText(b),
            UpperText(UrnPrefix) \o CanonicalText(b),
            HexOf(b)} : b \in TestUUIDs}

\* text that does not: a misplaced hyphen, a digit that is not hexadecimal, a wrong
\* prefix, a wrong length, 16 characters, nothing
BadTexts ==
    UNION {{[CanonicalText(b) EXCEPT ![9] = 48],
            [CanonicalText(b) EXCEPT ![36] = 103],
            [HexOf(b) EXCEPT ![1] = 120],
            <<117, 117, 105, 100, 58, 117, 114, 110, 58>> \o CanonicalText(b),
            SubSeq(CanonicalText(b), 1, 35),
            SubSeq(HexOf(b), 1, 16),
            <<>>} : b \in TestUUIDs}

Texts == GoodTexts \cup BadTexts

\* the values handed to UUID.Scan: byte slices, strings, and values of other types
ScanInputs ==
    {[type |-> "[]byte", val |-> b] : b \in TestUUIDs \cup {AllNibbles} \cup Texts}
    \cup {[type |-> "string", val |-> t] : t \in Texts \cup {AllNibbles}}
    \cup {[type |-> "int64", val |-> <<>>], [type |-> "nil", val |-> <<>>]}

\* the UUIDs a caller scans into or prints
Receivers ==
    {UUIDOf(Word(h, f, l), Word(l, f, h)) : h \in ByteVals, f \in FillVals, l \in ByteVals}
    \cup TestUUIDs \cup {AllNibbles}

\* the magnitude with the decimal digits ds (numbers 0..9, most significant first)
RECURSIVE natFromDecimal(_, _)
natFromDecimal(ds, acc) ==
    IF ds = <<>> \/ Len(acc) < 0 THEN acc
    ELSE natFromDecimal(Tail(ds), natNorm(natAdd(natMulSmall(acc, 10), <<Head(ds)>>)))

\* n digits: a leading digit, a filling digit repeated, z zeros at the end
DecPattern(n, lead, fill, z) == <<lead>> \o Rep(fill, n - 1 - z) \o Rep(0, z)

\* digit counts: small, around 2^64 (20 digits), and the ceiling of 38
DecLens == {1, 2, 3, 4, 19, 20, max_decimal_width}

\* 123, 12345, 5 and 100 of the documented cases, and generated magnitudes
DecDigitSamples ==
    {<<1, 2, 3>>, <<1, 2, 3, 4, 5>>, <<5>>, <<1, 0, 0>>, <<1, 2, 3, 0>>}
    \cup {DecPattern(n, lead, fill, IF z > n - 1 THEN n - 1 ELSE z) :
            n \in DecLens, lead \in {1, 9}, fill \in {0, 7}, z \in 0..MaxTrailingZeros}

DecScales == {0, 1, 2, 3, 4, 5, 18, 19, 20, 21, 37, max_decimal_width}

DecMagnitudes == {natFromDecimal(ds, <<>>) : ds \in DecDigitSamples}

\* widths: the least, the ceilings of the engine's four storage sizes, and one between
DecWidths == {1, 4, 9, 18, 19, max_decimal_width}

\* zero, at every width and every scale
ZeroDecimals ==
    {[Width |-> w, Scale |-> sc, Value |-> [neg |-> FALSE, abs |-> <<>>]] :
        w \in DecWidths, sc \in 0..max_decimal_width}

Decimals ==
    {[Width |-> w, Scale |-> sc, Value |-> [neg |-> sg, abs |-> mag]] :
        w \in {max_decimal_width}, sc \in DecScales, sg \in BOOLEAN, mag \in DecMagnitudes}
    \cup ZeroDecimals

\* the decimals converted to float64: those printed, and 0.002877 and 14015.918858,
\* whose quotients rounded to 64 bits lie halfway between two float64 values
FloatDecimals ==
    Decimals
    \cup {[Width |-> w, Scale |-> 6, Value |-> [neg |-> sg, abs |-> natFromDecimal(ds, <<>>)]] :
            w \in {9, 18}, sg \in BOOLEAN,
            ds \in {<<2, 8, 7, 7>>, <<1, 4, 0, 1, 5, 9, 1, 8, 8, 5, 8>>}}

\* the intervals of the tests and of the documented case, and negative fields
IntervalDays == {0, 1, 10, -1}

IntervalMonths == {0, 4, -1}

IntervalMicros ==
    {ZeroWord, Word(0, 0, 4), Rep(255, 8),
     <<0, 96, 215, 29, 20, 0, 0, 0>>,           \* 86400000000
     <<0, 52, 226, 48, 4, 0, 0, 0>>}            \* 18000000000

Intervals ==
    {IntervalOf(d, mo, mi) : d \in IntervalDays, mo \in IntervalMonths, mi \in IntervalMicros}

\* the maps, records and lists handed to Map.Scan and Composite.Scan
MapKeys == {<<102, 111, 111>>, <<98, 97, 114>>}         \* "foo", "bar"

MapVals == {<<97>>, <<101>>}                            \* "a", "e"

RecordKeys ==                                           \* "x", "X", "y", "z", "depth"
    {<<120>>, <<88>>, <<121>>, <<122>>, <<100, 101, 112, 116, 104>>}

RecordVals == {1, 2}

ListVals == {1, 2}

PairsOver(keys, vals) == UNION {[ks -> vals] : ks \in SUBSET keys}

MapSources == {MapOf(kv) : kv \in PairsOver(MapKeys, MapVals)}

RecordSources ==
    {MapOf(kv) : kv \in {f \in PairsOver(RecordKeys, RecordVals) :
                            Cardinality(DOMAIN f) <= MaxSrcFields}}

ListSources == {SliceOf(e) : e \in UNION {[1..n -> ListVals] : n \in 0..MaxListLen}}

NilValue == [kind |-> "nil"]

StringValue == [kind |-> "string", val |-> [text |-> <<97>>]]

MapValues == {[kind |-> "map", val |-> x] : x \in MapSources}

RecordValues == {[kind |-> "record", val |-> x] : x \in RecordSources}

ListValues == {[kind |-> "list", val |-> x] : x \in ListSources}

\* a sample of the values that are not of the kind the destination takes
OtherValues ==
    {NilValue, StringValue,
     [kind |-> "record", val |-> MapOf(NoPairs)],
     [kind |-> "list", val |-> SliceOf(<<1>>)]}

MapScanInputs == MapValues \cup OtherValues \cup {[kind |-> "map", val |-> NilMap]}

CompositeInputs(kind) ==
    IF kind = "map" THEN MapValues \cup {NilValue, StringValue, [kind |-> "list", val |-> SliceOf(<<1>>)]}
    ELSE IF kind = "struct" THEN RecordValues \cup {NilValue, StringValue, [kind |-> "list", val |-> SliceOf(<<1>>)]}
    ELSE ListValues \cup {NilValue, StringValue, [kind |-> "record", val |-> MapOf(NoPairs)]}

CompositeKinds == {"map", "struct", "slice"}


(***************************************************************************)
(* The calls                                                               *)
(***************************************************************************)
NoCall == [op |-> "none"]

ZeroUUID == Rep(0, uuid_length)

Init ==
    /\ call = NoCall
    /\ u = ZeroUUID
    /\ mp = NilMap
    /\ comp = ZeroComposite("map")
    /\ param = NoParam
    /\ run = NoRun

Return ==
    /\ call.op # "none"
    /\ call' = NoCall
    /\ UNCHANGED <<u, mp, comp, param, run>>

CallHugeIntToNative ==
    /\ call.op = "none"
    /\ \E hi \in HugeInts :
          call' = [op |-> "hugeIntToNative", arg |-> hi, ret |-> hugeIntToNative(hi)]
    /\ UNCHANGED <<u, mp, comp, param, run>>

CallHugeIntFromNative ==
    /\ call.op = "none"
    /\ \E i \in BigInts :
          call' = [op |-> "hugeIntFromNative", arg |-> i, ret |-> hugeIntFromNative(i)]
    /\ UNCHANGED <<u, mp, comp, param, run>>

NextHugeInt == CallHugeIntToNative \/ CallHugeIntFromNative \/ Return

SpecHugeInt == Init /\ [][NextHugeInt]_vars

CallUuidToHugeInt ==
    /\ call.op = "none"
    /\ \E uuid \in UUIDs :
          call' = [op |-> "uuidToHugeInt", arg |-> uuid, ret |-> uuidToHugeInt(uuid)]
    /\ UNCHANGED <<u, mp, comp, param, run>>

CallHugeIntToUUID ==
    /\ call.op = "none"
    /\ \E hi \in HugeInts :
          call' = [op |-> "hugeIntToUUID", arg |-> hi, ret |-> hugeIntToUUID(hi)]
    /\ UNCHANGED <<u, mp, comp, param, run>>

NextCodec == CallUuidToHugeInt \/ CallHugeIntToUUID \/ Return

SpecCodec == Init /\ [][NextCodec]_vars

InitUUID ==
    /\ call = NoCall
    /\ u \in Receivers
    /\ mp = NilMap
    /\ comp = ZeroComposite("map")
    /\ param = NoParam
    /\ run = NoRun

CallUUIDScan ==
    /\ call.op = "none"
    /\ \E v \in ScanInputs :
          LET r == UUIDScan(u, v)
          IN  /\ call' = [op |-> "Scan", recv |-> u, arg |-> v, err |-> r.err]
              /\ u' = r.u
              /\ UNCHANGED <<mp, comp, param, run>>

CallUUIDString ==
    /\ call.op = "none"
    /\ call' = [op |-> "String", recv |-> u, ret |-> UUIDString(u)]
    /\ UNCHANGED <<u, mp, comp, param, run>>

NextUUID == CallUUIDScan \/ CallUUIDString \/ Return

SpecUUID == InitUUID /\ [][NextUUID]_vars

CallDecimalString ==
    /\ call.op = "none"
    /\ \E d \in Decimals :
          call' = [op |-> "Decimal.String", arg |-> d, ret |-> DecimalString(d)]
    /\ UNCHANGED <<u, mp, comp, param, run>>

NextDecimal == CallDecimalString \/ Return

SpecDecimal == Init /\ [][NextDecimal]_vars

CallDecimalFloat64 ==
    /\ call.op = "none"
    /\ \E d \in FloatDecimals :
          call' = [op |-> "Decimal.Float64", arg |-> d, ret |-> DecimalFloat64(d)]
    /\ UNCHANGED <<u, mp, comp, param, run>>

NextFloat == CallDecimalFloat64 \/ Return

SpecFloat == Init /\ [][NextFloat]_vars

InitComposite ==
    /\ call = NoCall
    /\ u = ZeroUUID
    /\ mp = NilMap
    /\ comp \in {ZeroComposite(k) : k \in CompositeKinds}
    /\ param = NoParam
    /\ run = NoRun

CallMapScan ==
    /\ call.op = "none"
    /\ \E v \in MapScanInputs :
          LET r == MapScan(mp, v)
          IN  /\ call' = [op |-> "Map.Scan", recv |-> mp, arg |-> v, err |-> r.err]
              /\ mp' = r.m
    /\ UNCHANGED <<u, comp, param, run>>

CallCompositeScan ==
    /\ call.op = "none"
    /\ \E v \in CompositeInputs(comp.kind) :
          LET r == CompositeScan(comp, v)
          IN  /\ call' = [op |-> "Composite.Scan", recv |-> comp, arg |-> v, err |-> r.err]
              /\ comp' = r.t
    /\ UNCHANGED <<u, mp, param, run>>

CallCompositeGet ==
    /\ call.op = "none"
    /\ call' = [op |-> "Composite.Get", recv |-> comp, ret |-> CompositeGet(comp)]
    /\ UNCHANGED <<u, mp, comp, param, run>>

NextComposite == CallMapScan \/ CallCompositeScan \/ CallCompositeGet \/ Return

SpecComposite == InitComposite /\ [][NextComposite]_vars

NextScan == CallUUIDScan \/ CallMapScan \/ Return

SpecScan == InitUUID /\ [][NextScan]_vars

CallIntervalEqual ==
    /\ call.op = "none"
    /\ \E a \in Intervals, b \in Intervals :
          call' = [op |-> "Interval.==", a |-> a, b |-> b, ret |-> IntervalEqual(a, b)]
    /\ UNCHANGED <<u, mp, comp, param, run>>

CallBindInterval ==
    /\ call.op = "none"
    /\ \E i \in Intervals :
          /\ call' = [op |-> "Interval.bind", arg |-> i]
          /\ param' = bindInterval(i)
    /\ UNCHANGED <<u, mp, comp, run>>

CallScanInterval ==
    /\ call.op = "none"
    /\ param.set
    /\ call' = [op |-> "Interval.scan", ret |-> scanInterval(param)]
    /\ UNCHANGED <<u, mp, comp, param, run>>

NextInterval == CallIntervalEqual \/ CallBindInterval \/ CallScanInterval \/ Return

SpecInterval == Init /\ [][NextInterval]_vars

\* the integers and decimals two callers are handed together
RunInts ==
    {[neg |-> FALSE, abs |-> <<>>], [neg |-> FALSE, abs |-> <<123>>],
     [neg |-> TRUE, abs |-> <<61, 11>>],
     [neg |-> TRUE, abs |-> <<1>> \o Rep(0, 7) \o <<1>>],
     [neg |-> FALSE, abs |-> Rep(255, 17)]}

RunScales == {0, 2, 6}

RunHugeInts == {[upper |-> Word(255, 255, 254), lower |-> Word(0, 0, 1)],
                [upper |-> Word(0, 0, 1), lower |-> Word(128, 0, 0)]}

Conversions == {"hugeIntToNative", "hugeIntFromNative", "Decimal.String", "Decimal.Float64"}

Callers == {1, 2}

InitRun ==
    /\ call = NoCall
    /\ u = ZeroUUID
    /\ mp = NilMap
    /\ comp = ZeroComposite("map")
    /\ param = NoParam
    /\ \E x \in RunInts, sc \in RunScales, hi \in RunHugeInts :
          run = [heap |-> <<x, [Width |-> max_decimal_width, Scale |-> sc, Value |-> SharedInt]>>,
                 thr  |-> [c \in Callers |-> Idle],
                 hi   |-> hi,
                 given |-> <<x, [Width |-> max_decimal_width, Scale |-> sc, Value |-> SharedInt]>>]

\* a caller calls one of the conversions
Enter(c) ==
    /\ run.thr[c].pc = "idle"
    /\ \E fn \in Conversions :
          run' = [run EXCEPT !.thr[c] = [Idle EXCEPT !.fn = fn, !.pc = Entry(fn)]]
    /\ UNCHANGED <<call, u, mp, comp, param>>

\* a caller runs the statement it stands at
Step(c) ==
    /\ run.thr[c].pc \notin {"idle", "done"}
    /\ LET me == run.thr[c]
           n  == IF me.fn = "hugeIntToNative" THEN StepToNative(run.heap, run.hi, me)
                 ELSE IF me.fn = "hugeIntFromNative" THEN StepFromNative(run.heap, me)
                 ELSE IF me.fn = "Decimal.String" THEN StepString(run.heap, me)
                 ELSE StepFloat64(run.heap, me)
       IN  run' = [run EXCEPT !.heap = n.heap, !.thr[c] = n.thr]
    /\ UNCHANGED <<call, u, mp, comp, param>>

NextRun == \E c \in Callers : Enter(c) \/ Step(c)

SpecRun == InitRun /\ [][NextRun]_vars

(***************************************************************************)
(* What the 128-bit conversions are required to compute, stated on the     *)
(* two's-complement encoding rather than by shifting and adding            *)
(***************************************************************************)
IsWord(w) == Len(w) = 8 /\ \A k \in 1..8 : w[k] \in 0..255

\* a big.Int in the form math/big keeps: no leading zero digit, zero is not negative
Canonical(n) ==
    /\ n.abs = <<>> \/ n.abs[Len(n.abs)] # 0
    /\ n.abs = <<>> => ~n.neg

\* 2^127 as a magnitude
TwoTo127 == Rep(0, 15) \o <<128>>

\* -2^127 <= n <= 2^127 - 1
InRange128(n) ==
    \/ Len(n.abs) < 16
    \/ Len(n.abs) = 16 /\ n.abs[16] < 128
    \/ n.neg /\ n.abs = TwoTo127

\* the 16 digits of n modulo 2^128
TwosComplement128(n) ==
    LET mag == [k \in 1..16 |-> IF k <= Len(n.abs) THEN n.abs[k] ELSE 0]
        inv == natAddC([k \in 1..16 |-> 255 - mag[k]], <<>>, 1)
    IN  IF n.neg THEN SubSeq(inv, 1, 16) ELSE mag

\* the 16 digits of upper * 2^64 + lower modulo 2^128
HugeIntDigits(hi) == hi.lower \o hi.upper

\* n = upper * 2^64 + lower, upper signed and lower unsigned: n is in the signed
\* 128-bit range and agrees with the two words modulo 2^128
Denotes(hi, n) == InRange128(n) /\ TwosComplement128(n) = HugeIntDigits(hi)

\* the integer a signed 64-bit word stands for
SignedValue64(w) ==
    IF w[8] < 128 THEN [neg |-> FALSE, abs |-> natNorm(w)]
    ELSE [neg |-> TRUE, abs |-> natSub(Rep(0, 8) \o <<1>>, w)]

HighDigits(a) == IF Len(a) > 8 THEN SubSeq(a, 9, Len(a)) ELSE <<>>

LowIsZero(a) == \A k \in 1..8 : k <= Len(a) => a[k] = 0

\* floor(i / 2^64)
FloorQuot(i) ==
    IF ~i.neg THEN [neg |-> FALSE, abs |-> HighDigits(i.abs)]
    ELSE IF LowIsZero(i.abs) THEN [neg |-> TRUE, abs |-> HighDigits(i.abs)]
    ELSE [neg |-> TRUE, abs |-> natAdd(HighDigits(i.abs), <<1>>)]

\* i / 2^64 rounded toward zero
TruncQuot(i) ==
    [neg |-> i.neg /\ HighDigits(i.abs) # <<>>, abs |-> HighDigits(i.abs)]

\* floor(i / 2^64) fits in a signed 64-bit word
FloorQuotFits(i) ==
    LET q == FloorQuot(i)
    IN  \/ Len(q.abs) < 8
        \/ Len(q.abs) = 8 /\ q.abs[8] < 128
        \/ q.neg /\ q.abs = Rep(0, 7) \o <<128>>

AllOnes == Rep(255, 8)

MinusOne == [neg |-> TRUE, abs |-> <<1>>]

(***************************************************************************)
(* C2: for every 128-bit value v, hugeIntFromNative(hugeIntToNative(v))    *)
(* returns no error and a value with the same upper and lower as v.        *)
(***************************************************************************)
C2_HugeIntRoundTrip ==
    call.op = "hugeIntToNative" =>
        hugeIntFromNative(call.ret) = [val |-> call.arg, err |-> "nil"]

\* a negative value with a non-zero lower word has made the round trip
C2_Witness ==
    /\ call.op = "hugeIntToNative"
    /\ call.arg.upper = Word(128, 0, 1)
    /\ call.arg.lower = Word(255, 255, 127)
    /\ call.ret.neg
    /\ hugeIntFromNative(call.ret).val = call.arg

(***************************************************************************)
(* C3: hugeIntToNative(upper, lower) returns the integer                   *)
(* upper * 2^64 + lower, upper read as signed and lower as unsigned, for   *)
(* every word pair; (upper = -1, lower = 2^64 - 1) yields -1.              *)
(***************************************************************************)
C3_ToNativeValue ==
    call.op = "hugeIntToNative" =>
        /\ Canonical(call.ret)
        /\ Denotes(call.arg, call.ret)
        /\ (call.arg.upper = AllOnes /\ call.arg.lower = AllOnes => call.ret = MinusOne)

\* (upper = -1, lower = 2^64 - 1) has been converted
C3_Witness ==
    /\ call.op = "hugeIntToNative"
    /\ call.arg = [upper |-> AllOnes, lower |-> AllOnes]
    /\ call.ret = MinusOne

(***************************************************************************)
(* C4: whenever hugeIntFromNative(i) succeeds, upper * 2^64 + lower = i    *)
(* with lower in [0, 2^64) and upper = floor(i / 2^64), rounded toward     *)
(* negative infinity and not toward zero, also for negative i.             *)
(***************************************************************************)
C4_FromNativeFloor ==
    call.op = "hugeIntFromNative" /\ call.ret.err = "nil" =>
        /\ IsWord(call.ret.val.lower)
        /\ IsWord(call.ret.val.upper)
        /\ Denotes(call.ret.val, call.arg)
        /\ SignedValue64(call.ret.val.upper) = FloorQuot(call.arg)

\* a negative i that 2^64 does not divide was split, where floor and truncation differ
C4_Witness ==
    /\ call.op = "hugeIntFromNative"
    /\ call.ret.err = "nil"
    /\ call.arg.neg
    /\ Len(call.arg.abs) = 12
    /\ ~LowIsZero(call.arg.abs)
    /\ FloorQuot(call.arg) # TruncQuot(call.arg)
    /\ SignedValue64(call.ret.val.upper) = FloorQuot(call.arg)

(***************************************************************************)
(* C5: hugeIntFromNative(i) returns an error if and only if the floor      *)
(* quotient of i by 2^64 does not fit in a signed 64-bit word, that is     *)
(* exactly when i is outside [-2^127, 2^127 - 1]; on error the returned    *)
(* 128-bit value is the zero value.                                        *)
(***************************************************************************)
C5_FromNativeError ==
    call.op = "hugeIntFromNative" =>
        /\ call.ret.err # "nil" <=> ~FloorQuotFits(call.arg)
        /\ call.ret.err # "nil" <=> ~InRange128(call.arg)
        /\ call.ret.err # "nil" => call.ret.val = ZeroHugeInt

\* 2^127, the least integer above the range, was refused
C5_Witness ==
    /\ call.op = "hugeIntFromNative"
    /\ call.arg = [neg |-> FALSE, abs |-> TwoTo127]
    /\ call.ret.err # "nil"
    /\ call.ret.val = ZeroHugeInt

(***************************************************************************)
(* Orders, stated without the bit flip                                     *)
(***************************************************************************)
\* a < b, byte-wise and unsigned, from byte k on
RECURSIVE BytesLessFrom(_, _, _)
BytesLessFrom(a, b, k) ==
    IF k > Len(a) THEN FALSE
    ELSE IF a[k] # b[k] THEN a[k] < b[k]
    ELSE BytesLessFrom(a, b, k + 1)

UUIDLess(a, b) == BytesLessFrom(a, b, 1)

\* x < y as unsigned 64-bit words
UnsignedLess64(x, y) == natCmpFrom(x, y, 8) < 0

\* x < y as signed 64-bit words
SignedLess64(x, y) ==
    IF (x[8] >= 128) # (y[8] >= 128) THEN x[8] >= 128
    ELSE UnsignedLess64(x, y)

\* upper * 2^64 + lower of x is less than that of y
HugeIntLess(x, y) ==
    \/ SignedLess64(x.upper, y.upper)
    \/ x.upper = y.upper /\ UnsignedLess64(x.lower, y.lower)

(***************************************************************************)
(* C1: for every 16-byte UUID u, hugeIntToUUID(uuidToHugeInt(u)) returns   *)
(* exactly the 16 bytes of u.                                              *)
(***************************************************************************)
C1_UUIDRoundTrip ==
    call.op = "uuidToHugeInt" => hugeIntToUUID(call.ret) = call.arg

\* the test's 80000000-0000-0000-0000-200000000000 has made the round trip
C1_Witness ==
    /\ call.op = "uuidToHugeInt"
    /\ call.arg = <<128, 0, 0, 0, 0, 0, 0, 0, 0, 0, 32, 0, 0, 0, 0, 0>>
    /\ call.ret.upper = ZeroWord
    /\ hugeIntToUUID(call.ret) = call.arg

(***************************************************************************)
(* C6: uuidToHugeInt preserves order: a is byte-wise (unsigned) less than  *)
(* b if and only if the signed 128-bit integer produced for a is less      *)
(* than the one produced for b.                                            *)
(***************************************************************************)
\* each probe b with uuidToHugeInt(b)
ProbeImages == {<<b, uuidToHugeInt(b)>> : b \in OrderProbes}

C6_OrderPreserved ==
    call.op = "uuidToHugeInt" =>
        \A p \in ProbeImages :
            /\ UUIDLess(call.arg, p[1]) <=> HugeIntLess(call.ret, p[2])
            /\ UUIDLess(p[1], call.arg) <=> HugeIntLess(p[2], call.ret)

\* a UUID starting 7f.. was converted to a negative integer, below that of one
\* starting 80.., and a pair differing only in the lower word is ordered as well
C6_Witness ==
    /\ call.op = "uuidToHugeInt"
    /\ call.arg = UUIDOf(Word(127, 255, 255), Word(127, 255, 255))
    /\ call.ret.upper = AllOnes
    /\ \E b \in OrderProbes :
          /\ b[1] = 128
          /\ UUIDLess(call.arg, b)
          /\ HugeIntLess(call.ret, uuidToHugeInt(b))
    /\ \E b \in OrderProbes :
          /\ SubSeq(b, 1, 8) = SubSeq(call.arg, 1, 8)
          /\ b[9] = 128
          /\ UUIDLess(call.arg, b)
          /\ HugeIntLess(call.ret, uuidToHugeInt(b))

(***************************************************************************)
(* C7: uuidToHugeInt(u) sets upper to the big-endian word of bytes 0..7    *)
(* with its most significant bit flipped and lower to the big-endian word  *)
(* of bytes 8..15; hugeIntToUUID applies the same flip to upper and writes *)
(* both words big-endian, leaving lower's bits unmodified.                 *)
(***************************************************************************)
\* byte j (0..7) of a word written big-endian: the digit of weight 256^(7-j)
ByteOf(w, j) == w[8 - j]

\* a byte with its top bit flipped
FlipTop(b) == (b + 128) % 256

C7_BitLayout ==
    /\ call.op = "uuidToHugeInt" =>
          /\ IsWord(call.ret.upper) /\ IsWord(call.ret.lower)
          /\ ByteOf(call.ret.upper, 0) = FlipTop(call.arg[1])
          /\ \A j \in 1..7 : ByteOf(call.ret.upper, j) = call.arg[j + 1]
          /\ \A j \in 0..7 : ByteOf(call.ret.lower, j) = call.arg[j + 9]
    /\ call.op = "hugeIntToUUID" =>
          /\ Len(call.ret) = uuid_length
          /\ call.ret[1] = FlipTop(ByteOf(call.arg.upper, 0))
          /\ \A j \in 1..7 : call.ret[j + 1] = ByteOf(call.arg.upper, j)
          /\ \A j \in 0..7 : call.ret[j + 9] = ByteOf(call.arg.lower, j)

\* a hugeint with distinct top and bottom bytes in both words was written out
C7_Witness ==
    /\ call.op = "hugeIntToUUID"
    /\ call.arg = [upper |-> Word(128, 0, 1), lower |-> Word(255, 0, 127)]
    /\ call.ret = <<0, 0, 0, 0, 0, 0, 0, 1, 255, 0, 0, 0, 0, 0, 0, 127>>

(***************************************************************************)
(* C8: UUID.String returns, for every 16-byte UUID, a string of exactly 36 *)
(* characters: the lower-case hex digits of the 16 bytes in order, grouped *)
(* 8-4-4-4-12 with '-' at string positions 8, 13, 18 and 23 and nowhere    *)
(* else, and no braces.                                                    *)
(***************************************************************************)
\* 1-based places of the hyphens, string positions 8, 13, 18 and 23
HyphenPlaces == {9, 14, 19, 24}

IsLowerHex(c) == (c >= 48 /\ c <= 57) \/ (c >= 97 /\ c <= 102)

\* the text with the characters at the hyphen places left out
RECURSIVE DigitsOnly(_, _)
DigitsOnly(t, k) ==
    IF k > Len(t) THEN <<>>
    ELSE (IF k \in HyphenPlaces THEN <<>> ELSE <<t[k]>>) \o DigitsOnly(t, k + 1)

C8_CanonicalString ==
    call.op = "String" =>
        /\ Len(call.ret) = 36
        /\ \A k \in 1..36 : call.ret[k] = Hyphen <=> k \in HyphenPlaces
        /\ \A k \in 1..36 : k \notin HyphenPlaces => IsLowerHex(call.ret[k])
        /\ DigitsOnly(call.ret, 1) = HexOf(call.recv)
        /\ call.ret = CanonicalText(call.recv)

\* 01234567-89ab-cdef-fedc-ba9876543210, every hexadecimal digit, was printed
C8_Witness ==
    /\ call.op = "String"
    /\ call.recv = AllNibbles
    /\ call.ret = <<48, 49, 50, 51, 52, 53, 54, 55, 45, 56, 57, 97, 98, 45,
                    99, 100, 101, 102, 45, 102, 101, 100, 99, 45,
                    98, 97, 57, 56, 55, 54, 53, 52, 51, 50, 49, 48>>

(***************************************************************************)
(* C9: UUID.Scan accepts exactly two input shapes: a byte sequence of      *)
(* length 16 is copied into the receiver unchanged and unparsed; a string, *)
(* or a byte sequence of any other length reinterpreted as a string, is    *)
(* parsed as UUID text and fails with the parse error when unparseable; an *)
(* input of any other type fails with an error.                            *)
(***************************************************************************)
C9_ScanShapes ==
    call.op = "Scan" =>
        LET v == call.arg
            raw == v.type = "[]byte" /\ Len(v.val) = 16
            text == v.type = "string" \/ (v.type = "[]byte" /\ Len(v.val) # 16)
        IN  /\ raw => call.err = "nil" /\ u = v.val
            /\ text => /\ call.err = Parse(v.val).err
                       /\ call.err = "nil" => u = Parse(v.val).id
            /\ ~raw /\ ~text => call.err = "invalid UUID value type"
            /\ text /\ v.val \in BadTexts =>
                  call.err \in {"invalid UUID format", "invalid UUID length", "invalid urn prefix"}
            /\ text /\ v.val \in GoodTexts => call.err = "nil" /\ u \in TestUUIDs

\* a byte slice of 36 characters was parsed as text into a receiver that held another UUID
C9_Witness ==
    /\ call.op = "Scan"
    /\ call.arg.type = "[]byte"
    /\ Len(call.arg.val) = 36
    /\ call.err = "nil"
    /\ u = <<83, 180, 233, 131, 178, 135, 72, 26, 148, 173, 110, 60, 144, 72, 153, 19>>
    /\ call.recv = Rep(0, 16)

(***************************************************************************)
(* Decimal text, read back as a number                                     *)
(***************************************************************************)
IsDigit(c) == c >= 48 /\ c <= 57

\* m * 10^k
RECURSIVE natMulPow10(_, _)
natMulPow10(m, k) ==
    IF k = 0 \/ Len(m) < 0 THEN m
    ELSE IF k >= 6 THEN natMulPow10(natMulSmall(m, 1000000), k - 6)
    ELSE natMulPow10(natMulSmall(m, 10), k - 1)

\* the text without its sign
Unsigned(t) == IF t # <<>> /\ t[1] = 45 THEN SubSeq(t, 2, Len(t)) ELSE t

PointPlaces(t) == {k \in 1..Len(t) : t[k] = 46}

\* the digits before the decimal point, or all of them when there is none
IntegerPart(t) ==
    IF PointPlaces(t) = {} THEN t
    ELSE SubSeq(t, 1, (CHOOSE k \in PointPlaces(t) : TRUE) - 1)

\* the digits after the decimal point
FractionPart(t) ==
    IF PointPlaces(t) = {} THEN <<>>
    ELSE SubSeq(t, (CHOOSE k \in PointPlaces(t) : TRUE) + 1, Len(t))

DigitValues(t) == [k \in 1..Len(t) |-> t[k] - 48]

\* text is a decimal numeral, [-]digits[.digits], that denotes Value / 10^Scale exactly:
\* numeral-without-point * 10^Scale = |Value| * 10^(number of fraction digits)
TextDenotes(text, d) ==
    LET body == Unsigned(text)
        ip   == IntegerPart(body)
        fp   == FractionPart(body)
    IN  /\ (text[1] = 45) = d.Value.neg
        /\ Cardinality(PointPlaces(body)) <= 1
        /\ ip # <<>>
        /\ PointPlaces(body) # {} => fp # <<>>
        /\ \A k \in 1..Len(ip) : IsDigit(ip[k])
        /\ \A k \in 1..Len(fp) : IsDigit(fp[k])
        /\ natMulPow10(natFromDecimal(DigitValues(ip \o fp), <<>>), d.Scale)
             = natMulPow10(d.Value.abs, Len(fp))

\* the decimal digits (0..9) a sampled magnitude was written with
DecDigitTable == {<<ds, natFromDecimal(ds, <<>>)>> : ds \in DecDigitSamples}

DigitsOf(m) == (CHOOSE p \in DecDigitTable : p[2] = m)[1]

RECURSIVE TrailingZeros(_)
TrailingZeros(ds) ==
    IF ds = <<>> \/ ds[Len(ds)] # 0 THEN 0
    ELSE 1 + TrailingZeros(SubSeq(ds, 1, Len(ds) - 1))

AsText(ds) == [k \in 1..Len(ds) |-> 48 + ds[k]]

\* the text the three branches are documented to give
ExpectedDecimalText(d) ==
    LET ds      == DigitsOf(d.Value.abs)
        tz      == TrailingZeros(ds)
        trimmed == SubSeq(ds, 1, Len(ds) - tz)
        reduced == d.Scale - tz
        sign    == IF d.Value.neg THEN <<45>> ELSE <<>>
    IN  IF reduced <= 0
        THEN sign \o AsText(SubSeq(ds, 1, Len(ds) - d.Scale))
        ELSE IF Len(trimmed) <= reduced
        THEN sign \o <<48, 46>> \o Rep(48, reduced - Len(trimmed)) \o AsText(trimmed)
        ELSE sign \o AsText(SubSeq(trimmed, 1, Len(trimmed) - reduced)) \o <<46>>
             \o AsText(SubSeq(trimmed, Len(trimmed) - reduced + 1, Len(trimmed)))

DecimalOf(ds, scale, neg) ==
    [Width |-> max_decimal_width, Scale |-> scale,
     Value |-> [neg |-> neg, abs |-> natFromDecimal(ds, <<>>)]]

(***************************************************************************)
(* C10: for every Decimal with non-zero Value and Scale in 0..38,          *)
(* Decimal.String returns text that denotes exactly Value / 10^Scale (no   *)
(* digit lost or rounded) in all three branches: reduced scale <= 0        *)
(* (integer, zeros re-appended, no decimal point), digit count <= reduced  *)
(* scale ("0." plus zero padding), and otherwise (decimal point inserted   *)
(* reduced-scale digits from the right); (123, 2) -> "1.23",               *)
(* (12345, 0) -> "12345", (-5, 2) -> "-0.05".                              *)
(***************************************************************************)
C10_DecimalStringExact ==
    call.op = "Decimal.String" /\ call.arg.Value.abs # <<>> =>
        /\ TextDenotes(call.ret, call.arg)
        /\ call.ret = ExpectedDecimalText(call.arg)
        /\ call.arg = DecimalOf(<<1, 2, 3>>, 2, FALSE) => call.ret = <<49, 46, 50, 51>>
        /\ call.arg = DecimalOf(<<1, 2, 3, 4, 5>>, 0, FALSE) => call.ret = <<49, 50, 51, 52, 53>>
        /\ call.arg = DecimalOf(<<5>>, 2, TRUE) => call.ret = <<45, 48, 46, 48, 53>>

\* a negative 38-digit magnitude ending in two zeros was printed with scale 37: the
\* point follows the first digit and 35 fraction digits remain
C10_Witness ==
    /\ call.op = "Decimal.String"
    /\ call.arg = DecimalOf(DecPattern(38, 9, 7, 2), 37, TRUE)
    /\ Len(call.ret) = 38
    /\ call.ret[1] = 45 /\ call.ret[2] = 57 /\ call.ret[3] = 46
    /\ call.ret[38] = 55

(***************************************************************************)
(* C11: Decimal.String returns the literal "0" whenever Value is zero, for *)
(* every Scale and Width, with no sign, decimal point or padding.          *)
(***************************************************************************)
C11_ZeroIsZero ==
    call.op = "Decimal.String" /\ call.arg.Value.abs = <<>> => call.ret = <<48>>

\* zero with scale 2 was printed, where trimming its digit "0" would leave "0.0"
C11_Witness ==
    /\ call.op = "Decimal.String"
    /\ call.arg.Value.abs = <<>>
    /\ call.arg.Scale = 2
    /\ call.arg.Width = 4
    /\ call.ret = <<48>>

(***************************************************************************)
(* C12: Decimal.String output is in canonical shortest form: trailing zero *)
(* digits of the magnitude are trimmed and the scale reduced by the number *)
(* trimmed, so a result containing a decimal point never ends in '0' or    *)
(* '.', a value that is an integer is printed without a decimal point, and *)
(* a negative value carries exactly one leading '-'; (100, 3) -> "0.1".    *)
(***************************************************************************)
\* Value / 10^Scale is an integer
IsIntegerValued(d) ==
    d.Value.abs = <<>> \/ TrailingZeros(DigitsOf(d.Value.abs)) >= d.Scale

\* the scale left once the magnitude's trailing zeros are trimmed, when any is left
ReducedScale(d) ==
    LET r == d.Scale - TrailingZeros(DigitsOf(d.Value.abs))
    IN  IF r > 0 THEN r ELSE 0

C12_ShortestForm ==
    call.op = "Decimal.String" =>
        LET t == call.ret
            d == call.arg
        IN  /\ t # <<>>
            /\ PointPlaces(t) # {} => t[Len(t)] # 48 /\ t[Len(t)] # 46
            /\ IsIntegerValued(d) => PointPlaces(t) = {}
            /\ d.Value.abs # <<>> => Len(FractionPart(Unsigned(t))) = ReducedScale(d)
            /\ d.Value.neg => t[1] = 45
            /\ {k \in 1..Len(t) : t[k] = 45} = (IF d.Value.neg THEN {1} ELSE {})
            /\ d = DecimalOf(<<1, 0, 0>>, 3, FALSE) => t = <<48, 46, 49>>

\* -1230 with scale 2 was printed as "-12.3": one zero trimmed, one fraction digit left
C12_Witness ==
    /\ call.op = "Decimal.String"
    /\ call.arg = DecimalOf(<<1, 2, 3, 0>>, 2, TRUE)
    /\ call.ret = <<45, 49, 50, 46, 51>>


(***************************************************************************)
(* C13: a successful scan of a map source into a destination map (Map.Scan *)
(* and Composite.Scan with a map-typed T) leaves the destination holding   *)
(* exactly the key/value pairs of the source, whatever was scanned into    *)
(* the destination before.                                                 *)
(* Map.Scan assigns the source and does so; Composite.Scan decodes into    *)
(* the map the destination already holds, and the pairs of an earlier scan *)
(* whose keys the source lacks stay in it.                                 *)
(***************************************************************************)
Foo == <<102, 111, 111>>

Bar == <<98, 97, 114>>

IsMapScan ==
    /\ call.op = "Composite.Scan"
    /\ call.err = "nil"
    /\ call.recv.kind = "map"
    /\ call.arg.kind = "map"

C13_ReplacedWholesale ==
    /\ (call.op = "Map.Scan" /\ call.err = "nil") => mp = call.arg.val
    /\ IsMapScan => comp.val.kv = call.arg.val.kv

\* scanning {"bar": "e"} into a Composite that holds {"foo": "a"} from the scan
\* before leaves it holding both pairs
C13_Witness ==
    /\ IsMapScan
    /\ call.recv.val = MapOf([k \in {Foo} |-> <<97>>])
    /\ call.arg.val = MapOf([k \in {Bar} |-> <<101>>])
    /\ comp.val = MapOf([k \in {Foo, Bar} |-> IF k = Foo THEN <<97>> ELSE <<101>>])

(***************************************************************************)
(* C14: Composite.Scan of a record into a record-typed T never fails for   *)
(* a source field that no destination field takes; each destination field  *)
(* whose name (its tag when it has one) equals a source field's name but   *)
(* for case holds the value of such a source field; every other destination *)
(* field holds what it held before the call, so its zero value when it was  *)
(* zero; {x: 1, y: 2} into zero fields X, Y gives X = 1, Y = 2; and Get     *)
(* returns the record the Composite holds.                                 *)
(***************************************************************************)
LowerText(s) == [k \in 1..Len(s) |-> IF s[k] \in 65..90 THEN s[k] + 32 ELSE s[k]]

\* the name a destination field is matched by
LookupName(f) == IF f.tag = <<>> THEN f.name ELSE f.tag

\* the source fields whose name is that of destination field f, case aside
SourceFieldsFor(f, src) ==
    {k \in DOMAIN src.kv : LowerText(k) = LowerText(LookupName(f))}

IsRecordScan ==
    /\ call.op = "Composite.Scan"
    /\ call.recv.kind = "struct"
    /\ call.arg.kind = "record"

ZeroPoint == [X |-> 0, Y |-> 0, Depth |-> 0]

C14_RecordDecode ==
    /\ IsRecordScan =>
          /\ call.err = "nil"
          /\ \A i \in 1..Len(PointFields) :
                LET f  == PointFields[i]
                    ks == SourceFieldsFor(f, call.arg.val)
                IN  /\ ks # {} => comp.val[f.field] \in {call.arg.val.kv[k] : k \in ks}
                    /\ ks = {} => comp.val[f.field] = call.recv.val[f.field]
                    /\ (ks = {} /\ call.recv.val[f.field] = 0) => comp.val[f.field] = 0
          /\ (/\ call.recv.val = ZeroPoint
              /\ call.arg.val.kv = [k \in {<<120>>, <<121>>} |-> IF k = <<120>> THEN 1 ELSE 2])
                => comp.val = [X |-> 1, Y |-> 2, Depth |-> 0]
    /\ call.op = "Composite.Get" => call.ret = comp.val

\* {x: 1, y: 2, depth: 2} into a zero point: X and Y are set, Depth, whose tag is
\* "z", stays zero and the source field depth is ignored
C14_Witness ==
    /\ IsRecordScan
    /\ call.recv.val = ZeroPoint
    /\ DOMAIN call.arg.val.kv = {<<120>>, <<121>>, <<100, 101, 112, 116, 104>>}
    /\ call.arg.val.kv[<<120>>] = 1
    /\ call.arg.val.kv[<<121>>] = 2
    /\ call.err = "nil"
    /\ comp.val = [X |-> 1, Y |-> 2, Depth |-> 0]

(***************************************************************************)
(* C15: Composite.Scan of a sequence of n elements into a sequence-typed T *)
(* leaves the destination with exactly n elements, element i being source  *)
(* element i, whatever the destination held before the call.               *)
(* The elements are decoded into the slice the destination already holds:  *)
(* a destination longer than the source keeps its length and its elements  *)
(* past n.                                                                 *)
(***************************************************************************)
IsListScan ==
    /\ call.op = "Composite.Scan"
    /\ call.err = "nil"
    /\ call.recv.kind = "slice"
    /\ call.arg.kind = "list"

C15_ExactlySourceElements ==
    IsListScan =>
        /\ Len(comp.val.elems) = Len(call.arg.val.elems)
        /\ \A i \in 1..Len(call.arg.val.elems) : comp.val.elems[i] = call.arg.val.elems[i]

\* scanning [2] into a Composite that holds [1, 2, 1] from the scan before leaves
\* it holding [2, 2, 1]
C15_Witness ==
    /\ IsListScan
    /\ call.recv.val = SliceOf(<<1, 2, 1>>)
    /\ call.arg.val = SliceOf(<<2>>)
    /\ comp.val = SliceOf(<<2, 2, 1>>)

(***************************************************************************)
(* C18: when UUID.Scan or Map.Scan returns an error the receiver holds the *)
(* value it held before the call, and each of the inputs named gives an    *)
(* error: text that does not parse, bytes of a length other than 16 that   *)
(* do not parse, an unsupported type, a value that is not a Map.           *)
(***************************************************************************)
C18_FailedScanKeepsReceiver ==
    /\ (call.op = "Scan" /\ call.err # "nil") => u = call.recv
    /\ (call.op = "Map.Scan" /\ call.err # "nil") => mp = call.recv
    /\ (call.op = "Scan" /\ call.arg.type = "string" /\ call.arg.val \in BadTexts)
          => call.err # "nil"
    /\ (/\ call.op = "Scan" /\ call.arg.type = "[]byte" /\ call.arg.val \in BadTexts
        /\ Len(call.arg.val) # uuid_length) => call.err # "nil"
    /\ (call.op = "Scan" /\ call.arg.type \notin {"string", "[]byte"}) => call.err # "nil"
    /\ (call.op = "Map.Scan" /\ call.arg.kind # "map") => call.err # "nil"

\* a Map that holds two entries refuses a string, after a UUID.Scan that succeeded
C18_Witness ==
    /\ call.op = "Map.Scan"
    /\ call.arg = StringValue
    /\ call.err # "nil"
    /\ call.recv.nil = FALSE
    /\ DOMAIN call.recv.kv = {Foo, Bar}
    /\ mp = call.recv
    /\ u = AllNibbles

(***************************************************************************)
(* C16: two Intervals are equal exactly when their Days, their Months and   *)
(* their Micros are equal: {Days: 1} and {Micros: 86400000000} are not     *)
(* equal though both last a day; and an Interval scanned back after it was *)
(* bound has the three fields it was bound with.                           *)
(***************************************************************************)
OneDay == IntervalOf(1, 0, ZeroWord)

OneDayOfMicros == IntervalOf(0, 0, <<0, 96, 215, 29, 20, 0, 0, 0>>)

SameFields(a, b) ==
    \A f \in {"Days", "Months", "Micros"} : a[f] = b[f]

natAbsDiff(x, y) == IF natCmp(x, y) >= 0 THEN natSub(x, y) ELSE natSub(y, x)

TwoTo52 == natShl(<<1>>, 52)

\* the float64 r = mant * 2^exp is the one nearest to v / 10^scale, v > 0
IsNearest(r, v, scale) ==
    LET a    == IF r.exp < 0 THEN natShl(v, 0 - r.exp) ELSE v
        b    == natMulPow10(IF r.exp < 0 THEN r.mant ELSE natShl(r.mant, r.exp), scale)
        unit == natMulPow10(IF r.exp < 0 THEN <<1>> ELSE natShl(<<1>>, r.exp), scale)
        diff == natAbsDiff(a, b)
        half == natCmp(natShl(diff, 1), unit)
    IN  /\ natBitLen(r.mant) = 53
        /\ half = -1 \/ (half = 0 /\ r.mant[1] % 2 = 0)
        /\ (r.mant = TwoTo52 /\ natCmp(a, b) < 0) => natCmp(natShl(diff, 2), unit) <= 0

IsFloat64Of(r, d) ==
    IF d.Value.abs = <<>> THEN r = [neg |-> FALSE, mant |-> <<>>, exp |-> 0]
    ELSE r.neg = d.Value.neg /\ IsNearest(r, d.Value.abs, d.Scale)

C17_Float64Nearest ==
    call.op = "Decimal.Float64" => IsFloat64Of(call.ret, call.arg)

\* Decimal{Width: 9, Scale: 6, Value: 2877}.Float64() is 6633910337507798 * 2^-61,
\* the float64 above the one nearest to 0.002877
C17_Witness ==
    /\ call.op = "Decimal.Float64"
    /\ call.arg = [Width |-> 9, Scale |-> 6, Value |-> [neg |-> FALSE, abs |-> <<61, 11>>]]
    /\ call.ret = [neg |-> FALSE, mant |-> <<214, 145, 35, 157, 129, 145, 23>>, exp |-> -61]
    /\ ~IsFloat64Of(call.ret, call.arg)
    /\ IsFloat64Of([call.ret EXCEPT !.mant = <<213, 145, 35, 157, 129, 145, 23>>], call.arg)

(***************************************************************************)
(* C19: with two callers running conversions on the same integer and the   *)
(* same Decimal, their statements interleaved in any order: the integer    *)
(* handed to hugeIntFromNative and the Decimal's Width, Scale and Value    *)
(* are never changed; the integer hugeIntToNative returns is an object of  *)
(* its own, which is neither of the shared ones nor one the other caller   *)
(* points to; and every call returns what it returns when run alone.       *)
(***************************************************************************)
PointersOf(c) == {run.thr[c].l[n] : n \in DOMAIN NoLocals} \ {0}

GivenDecimal ==
    [Width |-> run.given[2].Width, Scale |-> run.given[2].Scale, Value |-> run.given[1]]

ReturnsAsAlone(c) ==
    LET me == run.thr[c]
    IN  IF me.fn = "hugeIntToNative"
        THEN /\ me.ret.ptr \notin {SharedInt, SharedDecimal}
             /\ \A o \in Callers \ {c} : me.ret.ptr \notin PointersOf(o)
             /\ run.heap[me.ret.ptr] = hugeIntToNative(run.hi)
        ELSE IF me.fn = "hugeIntFromNative"
        THEN me.ret.res = hugeIntFromNative(run.given[1])
        ELSE IF me.fn = "Decimal.String"
        THEN me.ret.res = DecimalString(GivenDecimal)
        ELSE me.ret.res = DecimalFloat64(GivenDecimal)

C19_Pure ==
    run.thr # <<>> =>
        /\ run.heap[SharedInt] = run.given[1]
        /\ run.heap[SharedDecimal] = run.given[2]
        /\ \A c \in Callers : run.thr[c].pc = "done" => ReturnsAsAlone(c)

\* hugeIntFromNative and Decimal.Float64 on -2877, the second caller's statements
\* run between those of the first
C19_Witness ==
    /\ run.thr # <<>>
    /\ run.given[1] = [neg |-> TRUE, abs |-> <<61, 11>>]
    /\ run.given[2].Scale = 6
    /\ run.thr[1].fn = "hugeIntFromNative" /\ run.thr[1].pc = "done"
    /\ run.thr[2].fn = "Decimal.Float64" /\ run.thr[2].pc = "done"
    /\ run.thr[1].l.d < run.thr[2].l.scale
    /\ run.thr[2].l.scale < run.thr[1].l.q
    /\ run.thr[1].l.q < run.thr[2].l.value
    /\ run.heap[SharedInt] = run.given[1]

====
